---- MODULE Spec2Model ----
(***************************************************************************)
(* Model of the asynchronous conversion orchestration of src/main.py:      *)
(* DoclingToMarkdownConverter (single-worker lane, convert_file,           *)
(* convert_directory, cancel_conversion) and WebToMarkdownConverter        *)
(* (convert_url, convert_youtube).                                         *)
(*                                                                         *)
(* Threads: the lane's worker (ThreadPoolExecutor(max_workers=1)), the     *)
(* calling thread(s), and the external docling processes.  A thread's      *)
(* step is split wherever it reads or writes state another thread can      *)
(* touch (cancel_requested, the process, the work queue, stats).           *)
(*                                                                         *)
(* Environment assumptions: callbacks supplied by the caller return        *)
(* normally; creating the output directory and stat() of an input that     *)
(* was just seen to exist succeed; Popen may raise.                        *)
(***************************************************************************)
EXTENDS Integers, Sequences, FiniteSets

(* ---------------------------- bounds ----------------------------------- *)
MaxJobs    == 2   \* convert_file_async calls made by callers
MaxCancels == 1   \* cancel_conversion calls
MaxLines   == 1   \* stdout lines one docling process emits
MaxFiles   == 2   \* direct files of the batch input directory
MaxWebJobs == 2   \* convert_url_async calls
MaxBothJobs == 2  \* jobs submitted in a run that uses both converters
MaxCount   == 45  \* stdout line counts the progress estimate is evaluated for

(* ------------------------ file names ----------------------------------- *)
\* A suffix is a sequence of characters; str.lower() maps each character.
LowerChar(c) ==
    CASE c = "P" -> "p" [] c = "D" -> "d" [] c = "F" -> "f"
      [] c = "T" -> "t" [] c = "X" -> "x" [] c = "M" -> "m"
      [] OTHER -> c

Lower(s) == [i \in DOMAIN s |-> LowerChar(s[i])]

get_supported_extensions ==
    << <<".", "p", "d", "f">>,      <<".", "d", "o", "c", "x">>,
       <<".", "p", "p", "t", "x">>, <<".", "h", "t", "m", "l">>,
       <<".", "t", "x", "t">>,      <<".", "c", "s", "v">>,
       <<".", "x", "l", "s", "x">>, <<".", "p", "p", "t">>,
       <<".", "d", "o", "c">>,      <<".", "x", "m", "l">> >>

Range(s) == {s[i] : i \in DOMAIN s}

\* the membership test without lower()
SuffixSupported_CaseSensitive(suffix) == suffix \in Range(get_supported_extensions)

\* Path(p).suffix.lower() in get_supported_extensions()
SuffixSupported(suffix) == Lower(suffix) \in Range(get_supported_extensions)

\* suffixes the callers and the directory draw from
Suffixes == { <<".", "p", "d", "f">>, <<".", "P", "D", "F">>, <<".", "m", "d">> }

\* an input path: whether it exists on disk, its suffix and its stem
File(e, s) == [exists |-> e, suffix |-> s, stem |-> "a"]

\* a path is the sequence of its parts; <<>> stands for None
None == <<>>

\* convert_file: output_path defaults to output_files/<input stem>.md
ResolveOutput(output_path, input) ==
    IF output_path = None THEN <<"output_files", input.stem, ".md">>
    ELSE output_path

\* the output path a caller passes with an input: none with a lower-case
\* name, a path in its own directory otherwise
RequestedOutput(input) ==
    IF Lower(input.suffix) = input.suffix THEN None
    ELSE <<"exports", input.stem, ".md">>

\* the input paths callers pass to convert_file_async
Inputs == {File(TRUE, s) : s \in Suffixes} \cup {File(FALSE, <<".", "p", "d", "f">>)}

(* ------------------------- state --------------------------------------- *)
VARIABLES
    cancel_requested,  \* DoclingToMarkdownConverter.cancel_requested
    process,           \* self.process: index into procs, 0 for None
    procs,             \* every docling process spawned so far, with its state
    queue,             \* the executor's work queue: ids of submitted thunks
    jobs,              \* the thunks submitted so far, by id (closure + outcome)
    wpc,               \* the worker's position
    cur,               \* id of the thunk the worker runs, 0 when idle
    stdout_lines,      \* len(stdout_lines) of the running convert_file
    result,            \* convert_file's return value, "none" while running
    cancels,           \* number of cancel_conversion calls so far
    cancelSinceReset   \* history: cancel_conversion ran after the last reset

fileVars == <<cancel_requested, process, procs, queue, jobs, wpc, cur,
              stdout_lines, result, cancels, cancelSinceReset>>

\* one directory conversion (one call of convert_directory, by either entry)
VARIABLES
    entry,             \* "none", or how convert_directory was entered
    dir,               \* the direct files of input_dir, in iterdir() order
    dpc,               \* position of the thread inside convert_directory
    stats,             \* the stats dict
    files_to_convert,  \* the list built by the enumeration
    idx,               \* index of the fan-out loop
    inc_tmp,           \* value read by stats['in_progress'] += 1
    dec_tmp,           \* value read by stats['in_progress'] -= 1
    completions,       \* history: stats as passed to the caller's completion callback
    batch_progress     \* history: <<resolved, convertible>> per batch progress report

batchVars == <<entry, dir, dpc, stats, files_to_convert, idx, inc_tmp, dec_tmp,
               completions, batch_progress>>

\* WebToMarkdownConverter and its lane
VARIABLES
    lane,                  \* the converter the callers of this run use
    web_cancel_requested,  \* WebToMarkdownConverter.cancel_requested
    web_queue,             \* its executor's work queue: ids of submitted tasks
    web_jobs,              \* the tasks submitted so far, by id
    web_pc,                \* position of its worker
    web_cur,               \* id of the task its worker runs, 0 when idle
    web_result             \* convert_url's return value, "none" while running

webVars == <<lane, web_cancel_requested, web_queue, web_jobs, web_pc, web_cur,
             web_result>>

\* DoclingConverterApp and main
VARIABLES
    conversion_in_progress,  \* DoclingConverterApp.conversion_in_progress
    app,                     \* "none": no window in this run; "running": in
                             \* root.mainloop(); "exited": main has cleaned up
    temp_dir_exists,         \* whether the directory temp_output exists
    current_mode             \* DoclingConverterApp.current_mode

guiVars == <<conversion_in_progress, app, temp_dir_exists, current_mode>>

vars == <<fileVars, batchVars, webVars, guiVars>>

\* the thunk convert_file_async submits, with the history of its run
FileJob(input, pcb, ccb) ==
    [kind |-> "file", input |-> input, pcb |-> pcb, ccb |-> ccb,
     state |-> "queued", result |-> "none", last |-> -1, after100 |-> FALSE,
     popen |-> FALSE, proc |-> 0, notified |-> 0, cancelInFlight |-> FALSE,
     output_path |-> None, tool_out |-> None, cb_out |-> None,
     outcome |-> "none", cancelRunning |-> FALSE]

ProcAlive(p) == procs[p] \in {"alive", "terminating"}

(* --------------------------- Init -------------------------------------- *)
InitFile ==
    /\ cancel_requested = FALSE
    /\ process = 0
    /\ procs = <<>>
    /\ queue = <<>>
    /\ jobs = <<>>
    /\ wpc = "idle"
    /\ cur = 0
    /\ stdout_lines = 0
    /\ result = "none"
    /\ cancels = 0
    /\ cancelSinceReset = FALSE

InitBatch ==
    /\ entry = "none"
    /\ dir = <<>>
    /\ dpc = "none"
    /\ stats = [total_files |-> 0, converted |-> 0, failed |-> 0,
                skipped |-> 0, in_progress |-> 0]
    /\ files_to_convert = <<>>
    /\ idx = 0
    /\ inc_tmp = 0
    /\ dec_tmp = 0
    /\ completions = <<>>
    /\ batch_progress = <<>>

InitWeb ==
    /\ web_cancel_requested = FALSE
    /\ web_queue = <<>>
    /\ web_jobs = <<>>
    /\ web_pc = "idle"
    /\ web_cur = 0
    /\ web_result = "none"

\* ensure_directory_exists(Path(path).parent): whether temp_output exists
\* afterwards
EnsureDirectory(path) == temp_dir_exists \/ path[1] = "temp_output"

\* a run without the window: the converters are used as a library
InitNoApp ==
    /\ conversion_in_progress = FALSE
    /\ app = "none"
    /\ temp_dir_exists = FALSE
    /\ current_mode = "none"

\* a run whose callers use the DoclingToMarkdownConverter
Init == InitFile /\ InitBatch /\ InitWeb /\ InitNoApp /\ lane = "docling"

\* the converters the callers of the run use
UsesDocling == lane \in {"docling", "both"}
UsesWeb == lane \in {"web", "both"}

\* a run that uses both converters takes MaxBothJobs jobs in all
RoomForJob == lane = "both" => Len(jobs) + Len(web_jobs) < MaxBothJobs

\* the input paths the callers pass: in a run that uses both converters, an
\* existing file of a supported type
CallerInputs ==
    IF lane = "both" THEN {File(TRUE, <<".", "p", "d", "f">>)} ELSE Inputs

(* ----------------------- the executor ---------------------------------- *)
\* executor.submit(thunk): the thunk joins the work queue
Submit(job) ==
    /\ jobs' = Append(jobs, job)
    /\ queue' = Append(queue, Len(jobs) + 1)

\* a pool that starts a thunk while another one runs
WorkerFree_Always == TRUE

\* max_workers=1: the worker takes a thunk only when it runs none
WorkerFree == wpc = "idle"

\* the worker takes the oldest queued thunk
NextThunk == Head(queue)

SetJob(j, f, v) == [jobs EXCEPT ![j][f] = v]

(* -------------------- calls from the caller thread --------------------- *)
\* convert_file_async(input_path, output_path, progress_callback, completion_callback)
convert_file_async ==
    /\ UsesDocling /\ RoomForJob
    /\ Cardinality({j \in DOMAIN jobs : jobs[j].ccb # "batch"}) < MaxJobs
    /\ \E input \in CallerInputs :
          Submit([FileJob(input, TRUE, "user")
                    EXCEPT !.output_path = RequestedOutput(input)])
    /\ UNCHANGED <<cancel_requested, process, procs, wpc, cur, stdout_lines,
                   result, cancels, cancelSinceReset>>
    /\ UNCHANGED <<batchVars, webVars, guiVars>>

\* history: the jobs submitted and not finished whose process has not exited
InFlight(j) ==
    /\ jobs[j].kind = "file"
    /\ jobs[j].state # "done"
    /\ (j = cur => result = "none")
    /\ (jobs[j].proc # 0 => ProcAlive(jobs[j].proc))

\* history: job j is running convert_file and is past its reset of the flag
PastReset(j) ==
    /\ j = cur
    /\ wpc \in {"spawn", "poll", "check", "drain", "finish"}

\* cancel_conversion()
cancel_conversion ==
    /\ UsesDocling
    /\ cancels < MaxCancels
    /\ cancels' = cancels + 1
    /\ cancel_requested' = TRUE
    /\ cancelSinceReset' = TRUE
    /\ jobs' = [j \in DOMAIN jobs |->
                  [jobs[j] EXCEPT !.cancelInFlight = @ \/ InFlight(j),
                                  !.cancelRunning = @ \/ PastReset(j)]]
    /\ UNCHANGED <<process, procs, queue, wpc, cur, stdout_lines, result>>
    /\ UNCHANGED <<batchVars, webVars, guiVars>>

(* ------------------- the external docling process ---------------------- *)
\* a live process exits by itself, with code 0 or not
ProcessExit ==
    \E p \in DOMAIN procs, code \in {"exit0", "exitN"} :
        /\ procs[p] = "alive"
        /\ procs' = [procs EXCEPT ![p] = code]
        /\ UNCHANGED <<cancel_requested, process, queue, jobs, wpc, cur,
                       stdout_lines, result, cancels, cancelSinceReset>>
        /\ UNCHANGED <<batchVars, webVars, guiVars>>

\* a process that got SIGTERM dies
ProcessTerminated ==
    \E p \in DOMAIN procs :
        /\ procs[p] = "terminating"
        /\ procs' = [procs EXCEPT ![p] = "killed"]
        /\ UNCHANGED <<cancel_requested, process, queue, jobs, wpc, cur,
                       stdout_lines, result, cancels, cancelSinceReset>>
        /\ UNCHANGED <<batchVars, webVars, guiVars>>

(* ------------------------ the worker ----------------------------------- *)
\* the worker dequeues a thunk and starts running it
WorkerStart ==
    /\ WorkerFree
    /\ queue # <<>>
    /\ LET j == NextThunk IN
         /\ cur' = j
         /\ queue' = [i \in 1..(Len(queue) - 1) |->
                        LET rest == SelectSeq(queue, LAMBDA x : x # j) IN rest[i]]
         /\ jobs' = SetJob(j, "state", "running")
         /\ wpc' = IF jobs[j].kind = "file" THEN "validate" ELSE "dir"
    /\ stdout_lines' = 0
    /\ result' = "none"
    /\ UNCHANGED <<cancel_requested, process, procs, cancels, cancelSinceReset>>
    /\ UNCHANGED <<batchVars, webVars, guiVars>>

\* variant: convert_file gives up at once when a cancellation is pending on
\* entry, so a cancel also takes the jobs that were queued behind the running
\* one
Validate_HonoursPendingCancel ==
    /\ wpc = "validate"
    /\ IF cancel_requested
       THEN /\ wpc' = "notify"
            /\ result' = "False"
            /\ jobs' = SetJob(cur, "outcome", "cancelled")
       ELSE /\ IF jobs[cur].input.exists
                  /\ SuffixSupported(jobs[cur].input.suffix)
               THEN /\ wpc' = "reset"
                    /\ UNCHANGED result
               ELSE /\ wpc' = "notify"
                    /\ result' = "False"
            /\ jobs' = SetJob(cur, "outcome",
                          IF ~jobs[cur].input.exists THEN "missing"
                          ELSE IF ~SuffixSupported(jobs[cur].input.suffix)
                               THEN "unsupported" ELSE "none")
    /\ UNCHANGED <<cancel_requested, process, procs, queue, cur,
                   stdout_lines, cancels, cancelSinceReset>>
    /\ temp_dir_exists' =
          IF wpc' = "reset"
          THEN EnsureDirectory(ResolveOutput(jobs[cur].output_path,
                                             jobs[cur].input))
          ELSE temp_dir_exists
    /\ UNCHANGED <<conversion_in_progress, app, current_mode>>
    /\ UNCHANGED <<batchVars, webVars>>

\* convert_file: the two validations, a failed one returns False; then the
\* output path is resolved and its directory created
Validate ==
    /\ wpc = "validate"
    /\ IF jobs[cur].input.exists /\ SuffixSupported(jobs[cur].input.suffix)
       THEN /\ wpc' = "reset"
            /\ UNCHANGED result
       ELSE /\ wpc' = "notify"
            /\ result' = "False"
    /\ jobs' = SetJob(cur, "outcome",
                      IF ~jobs[cur].input.exists THEN "missing"
                      ELSE IF ~SuffixSupported(jobs[cur].input.suffix)
                           THEN "unsupported" ELSE "none")
    /\ UNCHANGED <<cancel_requested, process, procs, queue, cur,
                   stdout_lines, cancels, cancelSinceReset>>
    /\ temp_dir_exists' =
          IF wpc' = "reset"
          THEN EnsureDirectory(ResolveOutput(jobs[cur].output_path,
                                             jobs[cur].input))
          ELSE temp_dir_exists
    /\ UNCHANGED <<conversion_in_progress, app, current_mode>>
    /\ UNCHANGED <<batchVars, webVars>>

\* progress_callback(v), when the job has a progress callback
Report(j, v) ==
    IF jobs[j].pcb
    THEN [jobs EXCEPT ![j].last = v, ![j].after100 = @ \/ jobs[j].last = 100]
    ELSE jobs

\* convert_file without the reset of the flag
ResetCancellation_NoReset ==
    /\ wpc = "reset"
    /\ cancelSinceReset' = FALSE
    /\ jobs' = Report(cur, 10)
    /\ wpc' = "spawn"
    /\ UNCHANGED <<cancel_requested, process, procs, queue, cur, stdout_lines,
                   result, cancels>>
    /\ UNCHANGED <<batchVars, webVars, guiVars>>

\* convert_file: self.cancel_requested = False; progress_callback(10)
ResetCancellation ==
    /\ wpc = "reset"
    /\ cancel_requested' = FALSE
    /\ cancelSinceReset' = FALSE
    /\ jobs' = Report(cur, 10)
    /\ wpc' = "spawn"
    /\ UNCHANGED <<process, procs, queue, cur, stdout_lines, result, cancels>>
    /\ UNCHANGED <<batchVars, webVars, guiVars>>

\* cmd = ["docling", input_path, "--output", output_path], output_path
\* being convert_file's resolved local
ToolOutput(j) == ResolveOutput(jobs[j].output_path, jobs[j].input)

\* variant: the exception raised by Popen is not caught by convert_file and
\* ends the thunk before the completion callback
Spawn_ExceptionEscapes ==
    /\ wpc = "spawn"
    /\ \/ /\ procs' = Append(procs, "alive")
          /\ process' = Len(procs) + 1
          /\ jobs' = [jobs EXCEPT ![cur].popen = TRUE,
                                  ![cur].proc = Len(procs) + 1,
                                  ![cur].tool_out = ToolOutput(cur)]
          /\ wpc' = "poll"
          /\ UNCHANGED result
       \/ /\ wpc' = "idle"
          /\ jobs' = [jobs EXCEPT ![cur].popen = TRUE,
                                  ![cur].tool_out = ToolOutput(cur),
                                  ![cur].outcome = "spawn",
                                  ![cur].state = "done"]
          /\ UNCHANGED <<process, procs, result>>
    /\ UNCHANGED <<cancel_requested, queue, cur, stdout_lines, cancels,
                   cancelSinceReset>>
    /\ UNCHANGED <<batchVars, webVars, guiVars>>

\* convert_file: subprocess.Popen(cmd, ...), which may raise
Spawn ==
    /\ wpc = "spawn"
    /\ \/ /\ procs' = Append(procs, "alive")
          /\ process' = Len(procs) + 1
          /\ jobs' = [jobs EXCEPT ![cur].popen = TRUE,
                                  ![cur].proc = Len(procs) + 1,
                                  ![cur].tool_out = ToolOutput(cur)]
          /\ wpc' = "poll"
          /\ UNCHANGED result
       \/ /\ result' = "False"
          /\ wpc' = "notify"
          /\ jobs' = [jobs EXCEPT ![cur].popen = TRUE,
                                  ![cur].tool_out = ToolOutput(cur),
                                  ![cur].outcome = "spawn"]
          /\ UNCHANGED <<process, procs>>
    /\ UNCHANGED <<cancel_requested, queue, cur, stdout_lines, cancels,
                   cancelSinceReset>>
    /\ UNCHANGED <<batchVars, webVars, guiVars>>

\* convert_file: while self.process.poll() is None
Poll ==
    /\ wpc = "poll"
    /\ wpc' = IF ProcAlive(process) THEN "check" ELSE "finish"
    /\ UNCHANGED <<cancel_requested, process, procs, queue, jobs, cur,
                   stdout_lines, result, cancels, cancelSinceReset>>
    /\ UNCHANGED <<batchVars, webVars, guiVars>>

\* Popen.kill() in the place of terminate(): the process is gone at once
Terminate_Kill(p) == [procs EXCEPT ![p] = IF @ = "alive" THEN "killed" ELSE @]

\* Popen.terminate(): SIGTERM to a process that has not exited
Terminate(p) == [procs EXCEPT ![p] = IF @ = "alive" THEN "terminating" ELSE @]

\* convert_file: if self.cancel_requested: terminate, return False
CheckCancel ==
    /\ wpc = "check"
    /\ IF cancel_requested
       THEN /\ procs' = Terminate(process)
            /\ result' = "False"
            /\ jobs' = SetJob(cur, "outcome", "cancelled")
            /\ wpc' = "notify"
       ELSE /\ wpc' = "drain"
            /\ UNCHANGED <<procs, result, jobs>>
    /\ UNCHANGED <<cancel_requested, process, queue, cur, stdout_lines,
                   cancels, cancelSinceReset>>
    /\ UNCHANGED <<batchVars, webVars, guiVars>>

\* the larger of the two in the place of min
Min_Larger(a, b) == IF a < b THEN b ELSE a

\* Python's min of two numbers
Min(a, b) == IF a < b THEN a ELSE b

\* the estimate without its base of 10
Estimate_NoBase(n) == Min(90, n * 2)

\* the estimate reported in the loop: min(90, 10 + len(stdout_lines) * 2)
Estimate(n) == Min(90, 10 + n * 2)

\* convert_file: the two readline() calls, the estimate, the sleep.
\* readline() returns a line the process wrote, or '' once the pipe is at
\* end of file; it blocks while the process is alive and silent.
Drain ==
    /\ wpc = "drain"
    /\ \/ /\ stdout_lines < MaxLines
          /\ stdout_lines' = stdout_lines + 1
       \/ /\ ~ProcAlive(process)
          /\ UNCHANGED stdout_lines
    /\ jobs' = Report(cur, Estimate(stdout_lines'))
    /\ wpc' = "poll"
    /\ UNCHANGED <<cancel_requested, process, procs, queue, cur, result,
                   cancels, cancelSinceReset>>
    /\ UNCHANGED <<batchVars, webVars, guiVars>>

\* convert_file reporting 100 before it looks at the return code
Finish_Report100Always ==
    /\ wpc = "finish"
    /\ jobs' = [Report(cur, 100) EXCEPT ![cur].outcome =
                   IF procs[process] = "exit0" THEN "ok" ELSE "exit"]
    /\ result' = IF procs[process] = "exit0" THEN "True" ELSE "False"
    /\ wpc' = "notify"
    /\ UNCHANGED <<cancel_requested, process, procs, queue, cur, stdout_lines,
                   cancels, cancelSinceReset>>
    /\ UNCHANGED <<batchVars, webVars, guiVars>>

\* convert_file: communicate(), then the return code decides
Finish ==
    /\ wpc = "finish"
    /\ IF procs[process] = "exit0"
       THEN /\ jobs' = [Report(cur, 100) EXCEPT ![cur].outcome = "ok"]
            /\ result' = "True"
       ELSE /\ result' = "False"
            /\ jobs' = SetJob(cur, "outcome", "exit")
    /\ wpc' = "notify"
    /\ UNCHANGED <<cancel_requested, process, procs, queue, cur, stdout_lines,
                   cancels, cancelSinceReset>>
    /\ UNCHANGED <<batchVars, webVars, guiVars>>

\* _convert_and_notify: completion_callback(result, output_path); the
\* window's callback is conversion_completed, which clears
\* conversion_in_progress; thunk ends
Notify ==
    /\ wpc = "notify"
    /\ jobs[cur].ccb # "batch"
    /\ jobs' = [jobs EXCEPT ![cur].state = "done",
                            ![cur].result = result,
                            ![cur].cb_out = jobs[cur].output_path,
                            ![cur].notified = IF jobs[cur].ccb = "none"
                                              THEN @ ELSE @ + 1]
    /\ wpc' = "idle"
    /\ cur' = 0
    /\ conversion_in_progress' =
          IF jobs[cur].ccb = "gui" THEN FALSE ELSE conversion_in_progress
    /\ UNCHANGED <<app, temp_dir_exists, current_mode>>
    /\ UNCHANGED <<cancel_requested, process, procs, queue, stdout_lines,
                   result, cancels, cancelSinceReset>>
    /\ UNCHANGED <<batchVars, webVars>>

(* ---------------------- convert_directory ------------------------------ *)
\* the entries input_path.iterdir() can yield, in the order it yields them:
\* files of distinct names, two of them with the same stem
DirEntries ==
    << File(TRUE, <<".", "P", "D", "F">>),
       File(TRUE, <<".", "d", "o", "c", "x">>),
       [File(TRUE, <<".", "P", "D", "F">>) EXCEPT !.stem = "b"],
       File(TRUE, <<".", "m", "d">>),
       [File(TRUE, <<".", "m", "d">>) EXCEPT !.stem = "b"] >>

\* the contents an input directory can have: up to MaxFiles direct files
Dirs ==
    { SelectSeq(DirEntries, LAMBDA f : f \in S) :
        S \in {T \in SUBSET Range(DirEntries) : Cardinality(T) <= MaxFiles} }

\* the thunk convert_directory_async submits
DirJob == [FileJob(File(TRUE, <<>>), TRUE, "user") EXCEPT !.kind = "dir"]

\* the callbacks convert_directory was given: the direct caller passes both,
\* convert_directory_async passes its progress callback and no completion
\* callback
HasCompletionCallback == entry = "direct"

\* the enumeration loop over input_path.iterdir()
Enumerate(d) ==
    LET conv == SelectSeq(d, LAMBDA f : SuffixSupported(f.suffix)) IN
      [files |-> conv,
       stats |-> [total_files |-> Len(d), converted |-> 0, failed |-> 0,
                  skipped |-> Len(d) - Len(conv), in_progress |-> 0]]

\* convert_directory that goes on to the fan-out with an empty list
EnumerateAndBranch_NoEmptyCheck(d, completion) ==
    LET e == Enumerate(d) IN
      /\ dir' = d
      /\ stats' = e.stats
      /\ files_to_convert' = e.files
      /\ idx' = 1
      /\ dpc' = IF e.files = <<>> THEN "returned" ELSE "read"
      /\ UNCHANGED completions

\* convert_directory up to the fan-out: enumeration, and for an empty list
\* the completion callback and the return
EnumerateAndBranch(d, completion) ==
    LET e == Enumerate(d) IN
      /\ dir' = d
      /\ stats' = e.stats
      /\ files_to_convert' = e.files
      /\ idx' = 1
      /\ IF e.files = <<>>
         THEN /\ completions' = IF completion THEN Append(completions, e.stats)
                                 ELSE completions
              /\ dpc' = "returned"
         ELSE /\ dpc' = "read"
              /\ UNCHANGED completions

\* convert_directory(input_dir, output_dir, progress_callback,
\* completion_callback) called on the caller's thread
convert_directory ==
    /\ lane = "docling"
    /\ entry = "none"
    /\ entry' = "direct"
    /\ \E d \in Dirs : EnumerateAndBranch(d, TRUE)
    /\ UNCHANGED <<inc_tmp, dec_tmp, batch_progress>>
    /\ UNCHANGED fileVars
    /\ UNCHANGED <<webVars, guiVars>>

\* convert_directory_async: the batch thunk joins the work queue
convert_directory_async ==
    /\ lane = "docling"
    /\ entry = "none"
    /\ entry' = "async"
    /\ Submit(DirJob)
    /\ UNCHANGED <<cancel_requested, process, procs, wpc, cur, stdout_lines,
                   result, cancels, cancelSinceReset>>
    /\ UNCHANGED <<dir, dpc, stats, files_to_convert, idx, inc_tmp, dec_tmp,
                   completions, batch_progress>>
    /\ UNCHANGED <<webVars, guiVars>>

\* the batch thunk on the worker: convert_directory(input_dir, output_dir,
\* progress_callback) up to the fan-out
DirThunkEnumerate ==
    /\ wpc = "dir"
    /\ dpc = "none"
    /\ \E d \in Dirs : EnumerateAndBranch(d, FALSE)
    /\ UNCHANGED <<entry, inc_tmp, dec_tmp, batch_progress>>
    /\ UNCHANGED fileVars
    /\ UNCHANGED <<webVars, guiVars>>

\* fan-out loop, stats['in_progress'] += 1: the read
FanOutRead ==
    /\ dpc = "read"
    /\ inc_tmp' = stats.in_progress
    /\ dpc' = "write"
    /\ UNCHANGED <<entry, dir, stats, files_to_convert, idx, dec_tmp,
                   completions, batch_progress>>
    /\ UNCHANGED fileVars
    /\ UNCHANGED <<webVars, guiVars>>

\* variant: the fan-out stops submitting once a child has failed
FanOutSubmit_AbortOnFailure ==
    /\ dpc = "write"
    /\ IF stats.failed > 0
       THEN /\ dpc' = "returned"
            /\ UNCHANGED <<stats, queue, jobs, idx>>
       ELSE /\ stats' = [stats EXCEPT !.in_progress = inc_tmp + 1]
            /\ Submit([FileJob(files_to_convert[idx], FALSE, "batch")
                         EXCEPT !.output_path =
                           <<"output_dir", files_to_convert[idx].stem, ".md">>])
            /\ idx' = idx + 1
            /\ dpc' = IF idx = Len(files_to_convert) THEN "returned"
                      ELSE "read"
    /\ UNCHANGED <<entry, dir, files_to_convert, inc_tmp, dec_tmp,
                   completions, batch_progress>>
    /\ UNCHANGED <<cancel_requested, process, procs, wpc, cur, stdout_lines,
                   result, cancels, cancelSinceReset>>
    /\ UNCHANGED <<webVars, guiVars>>

\* fan-out loop, stats['in_progress'] += 1: the write; then
\* convert_file_async(str(file_path), output_path, None, callback)
FanOutSubmit ==
    /\ dpc = "write"
    /\ stats' = [stats EXCEPT !.in_progress = inc_tmp + 1]
    /\ Submit([FileJob(files_to_convert[idx], FALSE, "batch")
                 EXCEPT !.output_path =
                    <<"output_dir", files_to_convert[idx].stem, ".md">>])
    /\ idx' = idx + 1
    /\ dpc' = IF idx = Len(files_to_convert) THEN "returned" ELSE "read"
    /\ UNCHANGED <<entry, dir, files_to_convert, inc_tmp, dec_tmp,
                   completions, batch_progress>>
    /\ UNCHANGED <<cancel_requested, process, procs, wpc, cur, stdout_lines,
                   result, cancels, cancelSinceReset>>
    /\ UNCHANGED <<webVars, guiVars>>

\* variant: the batch thunk waits for its children before it ends
DirThunkNotify_WaitsForChildren ==
    /\ wpc = "dir"
    /\ dpc = "returned"
    /\ \A j \in DOMAIN jobs : jobs[j].ccb = "batch" => jobs[j].state = "done"
    /\ completions' = Append(completions, stats)
    /\ jobs' = [jobs EXCEPT ![cur].state = "done", ![cur].notified = @ + 1]
    /\ wpc' = "idle"
    /\ cur' = 0
    /\ UNCHANGED <<entry, dir, dpc, stats, files_to_convert, idx, inc_tmp,
                   dec_tmp, batch_progress>>
    /\ UNCHANGED <<cancel_requested, process, procs, queue, stdout_lines,
                   result, cancels, cancelSinceReset>>
    /\ UNCHANGED <<webVars, guiVars>>

\* the batch thunk on the worker, after convert_directory returned:
\* completion_callback(stats); the thunk ends
DirThunkNotify ==
    /\ wpc = "dir"
    /\ dpc = "returned"
    /\ completions' = Append(completions, stats)
    /\ jobs' = [jobs EXCEPT ![cur].state = "done", ![cur].notified = @ + 1]
    /\ wpc' = "idle"
    /\ cur' = 0
    /\ UNCHANGED <<entry, dir, dpc, stats, files_to_convert, idx, inc_tmp,
                   dec_tmp, batch_progress>>
    /\ UNCHANGED <<cancel_requested, process, procs, queue, stdout_lines,
                   result, cancels, cancelSinceReset>>
    /\ UNCHANGED <<webVars, guiVars>>

\* the test of file_converted with the in_progress counter instead
BatchFinished_InProgressZero(st) == st.in_progress = 0

\* file_converted: stats['converted'] + stats['failed'] == len(files_to_convert)
BatchFinished(st) == st.converted + st.failed = Len(files_to_convert)

\* file_converted(success, ...) on the worker: the tally, and the read of
\* stats['in_progress'] -= 1
FileConvertedCount ==
    /\ wpc = "notify"
    /\ jobs[cur].ccb = "batch"
    /\ stats' = IF result = "True"
                THEN [stats EXCEPT !.converted = @ + 1]
                ELSE [stats EXCEPT !.failed = @ + 1]
    /\ dec_tmp' = stats.in_progress
    /\ wpc' = "cb_write"
    /\ UNCHANGED <<entry, dir, dpc, files_to_convert, idx, inc_tmp,
                   completions, batch_progress>>
    /\ UNCHANGED <<cancel_requested, process, procs, queue, jobs, cur,
                   stdout_lines, result, cancels, cancelSinceReset>>
    /\ UNCHANGED <<webVars, guiVars>>

\* file_converted: the write of stats['in_progress'] -= 1, update_progress(),
\* the completion test; the child's thunk ends
FileConvertedFinish ==
    /\ wpc = "cb_write"
    /\ LET st == [stats EXCEPT !.in_progress = dec_tmp - 1] IN
         /\ stats' = st
         /\ batch_progress' = Append(batch_progress,
                                 <<st.converted + st.failed, Len(files_to_convert)>>)
         /\ completions' = IF BatchFinished(st) /\ HasCompletionCallback
                            THEN Append(completions, st)
                            ELSE completions
    /\ jobs' = [jobs EXCEPT ![cur].state = "done",
                            ![cur].result = result,
                            ![cur].cb_out = jobs[cur].output_path,
                            ![cur].notified = @ + 1]
    /\ wpc' = "idle"
    /\ cur' = 0
    /\ UNCHANGED <<entry, dir, dpc, files_to_convert, idx, inc_tmp, dec_tmp>>
    /\ UNCHANGED <<cancel_requested, process, procs, queue, stdout_lines,
                   result, cancels, cancelSinceReset>>
    /\ UNCHANGED <<webVars, guiVars>>

ConvertFile ==
    \/ Validate \/ ResetCancellation \/ Spawn \/ Poll \/ CheckCancel
    \/ Drain \/ Finish

Next ==
    \/ convert_file_async
    \/ cancel_conversion
    \/ ProcessExit
    \/ ProcessTerminated
    \/ WorkerStart
    \/ ConvertFile
    \/ Notify

Spec == Init /\ [][Next]_vars

\* what the scheduling guarantees: the worker thread keeps running whatever
\* it can run, readline returns once the process has ended, and a process
\* sent a termination request ends; nothing makes the external process exit
\* on its own or print another line, so a readline on a live process may
\* never return
Fairness ==
    /\ WF_vars(WorkerStart)
    /\ WF_vars(ConvertFile /\ wpc # "drain")
    /\ WF_vars(Drain /\ ~ProcAlive(process))
    /\ WF_vars(Notify)
    /\ WF_vars(ProcessTerminated)

SpecLive == Init /\ [][Next]_vars /\ Fairness

\* a run with one directory conversion, entered either way
NextBatch ==
    \/ convert_directory
    \/ convert_directory_async
    \/ DirThunkEnumerate
    \/ FanOutRead
    \/ FanOutSubmit
    \/ DirThunkNotify
    \/ FileConvertedCount
    \/ FileConvertedFinish
    \/ cancel_conversion
    \/ ProcessExit
    \/ ProcessTerminated
    \/ WorkerStart
    \/ ConvertFile

SpecBatch == Init /\ [][NextBatch]_vars

\* a run with one directory conversion entered through
\* convert_directory_async
NextAsync ==
    \/ convert_directory_async
    \/ DirThunkEnumerate
    \/ FanOutRead
    \/ FanOutSubmit
    \/ DirThunkNotify
    \/ FileConvertedCount
    \/ FileConvertedFinish
    \/ cancel_conversion
    \/ ProcessExit
    \/ ProcessTerminated
    \/ WorkerStart
    \/ ConvertFile

\* the worker thread keeps running, and every external process ends
AsyncFairness ==
    /\ WF_vars(DirThunkEnumerate)
    /\ WF_vars(FanOutRead)
    /\ WF_vars(FanOutSubmit)
    /\ WF_vars(DirThunkNotify)
    /\ WF_vars(FileConvertedCount)
    /\ WF_vars(FileConvertedFinish)
    /\ WF_vars(WorkerStart)
    /\ WF_vars(ConvertFile /\ wpc # "drain")
    /\ WF_vars(Drain /\ ~ProcAlive(process))
    /\ WF_vars(ProcessExit)
    /\ WF_vars(ProcessTerminated)

InitAsync == Init

SpecAsyncLive == InitAsync /\ [][NextAsync]_vars /\ AsyncFairness

(* -------------------- WebToMarkdownConverter --------------------------- *)
\* a URL is the sequence of its parts; "x in url" holds when x is a part
Urls == { <<"example.com", "page">>, <<"youtube.com", "watch">>,
          <<"youtu.be", "abc">> }

\* the URLs the callers pass: in a run that uses both converters, a web page
CallerUrls == IF lane = "both" THEN {<<"example.com", "page">>} ELSE Urls

\* "youtube.com" in url or "youtu.be" in url
IsYoutube(url) == \E i \in DOMAIN url : url[i] \in {"youtube.com", "youtu.be"}

\* the task convert_url_async submits, with the history of its run
WebJob(url) ==
    [url |-> url, pcb |-> TRUE, state |-> "queued", result |-> "none",
     last |-> -1, after100 |-> FALSE, notified |-> 0,
     cancelRunning |-> FALSE, gui |-> FALSE]

\* progress_callback(v) of the running web task
WebReport(v) ==
    [web_jobs EXCEPT ![web_cur].last = v,
                     ![web_cur].after100 = @ \/ web_jobs[web_cur].last = 100]

\* convert_url_async(url, output_path, progress_callback, completion_callback)
convert_url_async ==
    /\ UsesWeb /\ RoomForJob
    /\ Len(web_jobs) < MaxWebJobs
    /\ \E url \in CallerUrls :
         /\ web_jobs' = Append(web_jobs, WebJob(url))
         /\ web_queue' = Append(web_queue, Len(web_jobs) + 1)
    /\ UNCHANGED <<lane, web_cancel_requested, web_pc, web_cur, web_result>>
    /\ UNCHANGED <<fileVars, batchVars, guiVars>>

\* history: web job j is inside convert_url or convert_youtube
WebRunning(j) == j = web_cur /\ web_pc \notin {"idle", "web_notify"}

\* variant: the two converters share one cancel flag
web_cancel_conversion_SharedFlag ==
    /\ UsesWeb
    /\ web_cancel_requested' = TRUE
    /\ cancel_requested' = TRUE
    /\ web_jobs' = [j \in DOMAIN web_jobs |->
                      IF WebRunning(j)
                      THEN [web_jobs[j] EXCEPT !.cancelRunning = TRUE]
                      ELSE web_jobs[j]]
    /\ UNCHANGED <<lane, web_queue, web_pc, web_cur, web_result>>
    /\ UNCHANGED <<process, procs, queue, jobs, wpc, cur, stdout_lines, result,
                   cancels, cancelSinceReset>>
    /\ UNCHANGED <<batchVars, guiVars>>

\* WebToMarkdownConverter.cancel_conversion()
web_cancel_conversion ==
    /\ UsesWeb
    /\ web_cancel_requested' = TRUE
    /\ web_jobs' = [j \in DOMAIN web_jobs |->
                      IF WebRunning(j)
                      THEN [web_jobs[j] EXCEPT !.cancelRunning = TRUE]
                      ELSE web_jobs[j]]
    /\ UNCHANGED <<lane, web_queue, web_pc, web_cur, web_result>>
    /\ UNCHANGED <<fileVars, batchVars, guiVars>>

\* the web worker dequeues a task and starts convert_url
WebWorkerStart ==
    /\ web_pc = "idle"
    /\ web_queue # <<>>
    /\ web_cur' = Head(web_queue)
    /\ web_queue' = Tail(web_queue)
    /\ web_jobs' = [web_jobs EXCEPT ![Head(web_queue)].state = "running"]
    /\ web_pc' = "url_start"
    /\ web_result' = "none"
    /\ UNCHANGED <<lane, web_cancel_requested>>
    /\ UNCHANGED <<fileVars, batchVars, guiVars>>

\* a step of the web worker: report v and go to pc, or fail with an exception
WebStep(from, v, to) ==
    /\ web_pc = from
    /\ web_jobs' = WebReport(v)
    /\ web_pc' = to
    /\ UNCHANGED <<lane, web_cancel_requested, web_queue, web_cur, web_result>>
    /\ UNCHANGED <<fileVars, batchVars, guiVars>>

\* the step that resolves the output path and creates its directory: the
\* window's tasks write to temp_output
WebPrepare(from, v, to) ==
    /\ web_pc = from
    /\ web_jobs' = WebReport(v)
    /\ web_pc' = to
    /\ temp_dir_exists' = (temp_dir_exists \/ web_jobs[web_cur].gui)
    /\ UNCHANGED <<conversion_in_progress, app, current_mode>>
    /\ UNCHANGED <<lane, web_cancel_requested, web_queue, web_cur, web_result>>
    /\ UNCHANGED <<fileVars, batchVars>>

\* except Exception: return False
WebRaise(from) ==
    /\ web_pc = from
    /\ web_result' = "False"
    /\ web_pc' = "web_notify"
    /\ UNCHANGED <<lane, web_cancel_requested, web_queue, web_jobs, web_cur>>
    /\ UNCHANGED <<fileVars, batchVars, guiVars>>

\* the last step of a conversion: progress_callback(100); return True
WebSucceed(from) ==
    /\ web_pc = from
    /\ web_jobs' = WebReport(100)
    /\ web_result' = "True"
    /\ web_pc' = "web_notify"
    /\ UNCHANGED <<lane, web_cancel_requested, web_queue, web_cur>>
    /\ UNCHANGED <<fileVars, batchVars, guiVars>>

\* convert_url: progress_callback(10), then the YouTube test
UrlStart ==
    WebStep("url_start", 10,
            IF IsYoutube(web_jobs[web_cur].url) THEN "yt_start" ELSE "url_prepare")

\* convert_url: output path, ensure_directory_exists, progress_callback(20)
UrlPrepare == WebPrepare("url_prepare", 20, "url_get")

\* convert_url: requests.get and raise_for_status, progress_callback(50)
UrlGet == WebStep("url_get", 50, "url_convert") \/ WebRaise("url_get")

\* convert_url: markdownify, progress_callback(80)
UrlConvert == WebStep("url_convert", 80, "url_write")

\* convert_url: the output file is written, progress_callback(100)
UrlWrite == WebSucceed("url_write") \/ WebRaise("url_write")

\* convert_youtube: progress_callback(10)
YtStart == WebStep("yt_start", 10, "yt_prepare")

\* convert_youtube: output path, ensure_directory_exists, progress_callback(30)
YtPrepare == WebPrepare("yt_prepare", 30, "yt_fetch")

\* convert_youtube: YouTube(url), progress_callback(50)
YtFetch == WebStep("yt_fetch", 50, "yt_meta") \/ WebRaise("yt_fetch")

\* convert_youtube: title, author, description, thumbnail; progress_callback(80)
YtMeta == WebStep("yt_meta", 80, "yt_write") \/ WebRaise("yt_meta")

\* convert_youtube: the output file is written, progress_callback(100)
YtWrite == WebSucceed("yt_write") \/ WebRaise("yt_write")

\* task: completion_callback(result, output_path); the task ends
WebNotify ==
    /\ web_pc = "web_notify"
    /\ web_jobs' = [web_jobs EXCEPT ![web_cur].state = "done",
                                    ![web_cur].result = web_result,
                                    ![web_cur].notified = @ + 1]
    /\ web_pc' = "idle"
    /\ web_cur' = 0
    /\ conversion_in_progress' =
          IF web_jobs[web_cur].gui THEN FALSE ELSE conversion_in_progress
    /\ UNCHANGED <<app, temp_dir_exists, current_mode>>
    /\ UNCHANGED <<lane, web_cancel_requested, web_queue, web_result>>
    /\ UNCHANGED <<fileVars, batchVars>>

ConvertUrl == UrlStart \/ UrlPrepare \/ UrlGet \/ UrlConvert \/ UrlWrite

ConvertYoutube == YtStart \/ YtPrepare \/ YtFetch \/ YtMeta \/ YtWrite

NextWeb ==
    \/ convert_url_async
    \/ web_cancel_conversion
    \/ WebWorkerStart
    \/ ConvertUrl
    \/ ConvertYoutube
    \/ WebNotify

\* a run whose callers use the WebToMarkdownConverter
InitWebRun == InitFile /\ InitBatch /\ InitWeb /\ InitNoApp /\ lane = "web"

SpecWeb == InitWebRun /\ [][NextWeb]_vars

\* a run whose callers use one of the two converters
NextProgress == Next \/ NextWeb

InitProgress ==
    InitFile /\ InitBatch /\ InitWeb /\ InitNoApp /\ lane \in {"docling", "web"}

SpecProgress == InitProgress /\ [][NextProgress]_vars

\* a run whose callers use both converters, each with its own executor
NextLanes ==
    \/ Next
    \/ convert_url_async
    \/ web_cancel_conversion
    \/ WebWorkerStart
    \/ ConvertUrl
    \/ WebNotify

InitLanes == InitFile /\ InitBatch /\ InitWeb /\ InitNoApp /\ lane = "both"

SpecLanes == InitLanes /\ [][NextLanes]_vars

(* ----------------- DoclingConverterApp and main ------------------------ *)
\* DoclingConverterApp.__init__: the window owns one converter of each kind
\* and creates temp_output
InitApp ==
    /\ conversion_in_progress = FALSE
    /\ app = "running"
    /\ temp_dir_exists = TRUE
    /\ current_mode = "none"

\* start_conversion(mode): nothing when a conversion is in progress;
\* otherwise the output path temp_output/<name>.md, the flag, and the job
\* submitted to the converter of the mode
start_conversion ==
    /\ app = "running"
    /\ ~conversion_in_progress
    /\ Len(jobs) + Len(web_jobs) < MaxBothJobs
    /\ \/ /\ current_mode' = "file"
          /\ \E input \in Inputs :
                Submit([FileJob(input, TRUE, "gui") EXCEPT !.output_path =
                           <<"temp_output", input.stem, ".md">>])
          /\ UNCHANGED <<cancel_requested, process, procs, wpc, cur,
                         stdout_lines, result, cancels, cancelSinceReset>>
          /\ UNCHANGED webVars
       \/ /\ current_mode' = "web"
          /\ \E url \in Urls :
                /\ web_jobs' = Append(web_jobs,
                                   [WebJob(url) EXCEPT !.gui = TRUE])
                /\ web_queue' = Append(web_queue, Len(web_jobs) + 1)
          /\ UNCHANGED <<lane, web_cancel_requested, web_pc, web_cur,
                         web_result>>
          /\ UNCHANGED fileVars
    /\ conversion_in_progress' = TRUE
    /\ UNCHANGED <<app, temp_dir_exists>>
    /\ UNCHANGED batchVars

\* DoclingConverterApp.cancel_conversion(mode): nothing when no conversion is
\* in progress; otherwise cancel_conversion() of the mode's converter, and
\* the flag is cleared at once
app_cancel_conversion ==
    /\ app = "running"
    /\ conversion_in_progress
    /\ \/ /\ current_mode = "file"
          /\ cancels < MaxCancels
          /\ cancels' = cancels + 1
          /\ cancel_requested' = TRUE
          /\ cancelSinceReset' = TRUE
          /\ jobs' = [j \in DOMAIN jobs |->
                        [jobs[j] EXCEPT !.cancelInFlight = @ \/ InFlight(j),
                                        !.cancelRunning = @ \/ PastReset(j)]]
          /\ UNCHANGED <<process, procs, queue, wpc, cur, stdout_lines,
                         result>>
          /\ UNCHANGED webVars
       \/ /\ current_mode = "web"
          /\ web_cancel_requested' = TRUE
          /\ web_jobs' = [j \in DOMAIN web_jobs |->
                            IF WebRunning(j)
                            THEN [web_jobs[j] EXCEPT !.cancelRunning = TRUE]
                            ELSE web_jobs[j]]
          /\ UNCHANGED <<lane, web_queue, web_pc, web_cur, web_result>>
          /\ UNCHANGED fileVars
    /\ conversion_in_progress' = FALSE
    /\ UNCHANGED <<app, temp_dir_exists, current_mode>>
    /\ UNCHANGED batchVars

\* main: root.mainloop() returns and shutil.rmtree(temp_output) runs; the
\* executors are left as they are, their workers run on until the queues
\* are empty
main_cleanup ==
    /\ app = "running"
    /\ app' = "exited"
    /\ temp_dir_exists' = FALSE
    /\ UNCHANGED <<conversion_in_progress, current_mode>>
    /\ UNCHANGED <<fileVars, batchVars, webVars>>

NextApp ==
    \/ start_conversion
    \/ app_cancel_conversion
    \/ main_cleanup
    \/ ProcessExit
    \/ ProcessTerminated
    \/ WorkerStart
    \/ ConvertFile
    \/ Notify
    \/ WebWorkerStart
    \/ ConvertUrl
    \/ ConvertYoutube
    \/ WebNotify

\* a run of the window
InitMain == InitFile /\ InitBatch /\ InitWeb /\ InitApp /\ lane = "gui"

SpecApp == InitMain /\ [][NextApp]_vars

(* ======================= properties: file jobs ========================= *)
FileJobs == {j \in DOMAIN jobs : jobs[j].kind = "file"}
Done(j) == jobs[j].state = "done"

\* C3 (as stated): a file job that was submitted, and whose process had not
\* exited, when cancel_conversion was called ends with the result False.
C3_CancelInFlightNeverSucceeds ==
    \A j \in FileJobs :
        (Done(j) /\ jobs[j].cancelInFlight) => jobs[j].result = "False"

\* C4: jobs run one at a time in submission order: a job has left the queue
\* only if every job submitted before it has finished, callback included,
\* and at most one thunk is running.
C4_FifoSingleWorker ==
    /\ \A a, b \in DOMAIN jobs :
          (a < b /\ jobs[b].state # "queued") => Done(a)
    /\ Cardinality({j \in DOMAIN jobs : jobs[j].state = "running"}) <= 1

C4_Witness ==
    /\ Len(jobs) >= 2
    /\ Done(1) /\ jobs[1].notified = 1
    /\ jobs[2].state = "running"

\* positions of convert_file after its reset of the flag
AfterReset == {"spawn", "poll", "check", "drain", "finish"}

\* C5: from the reset on (at the spawn and in the poll loop) the flag is set
\* only if cancel_conversion ran after this job's reset; a cancellation
\* requested earlier is not seen by the job.
C5_NoStaleCancellation ==
    (wpc \in AfterReset /\ cancel_requested) => cancelSinceReset

\* a job about to spawn, cancel_conversion having run while it was queued or
\* in validation, with the flag clear
C5_Witness ==
    /\ wpc = "spawn"
    /\ jobs[cur].cancelInFlight
    /\ ~cancel_requested

\* C6: within one job of either converter no progress report carries a value
\* lower than the report before it.
C6_ProgressNonDecreasing ==
    [][ /\ \A j \in DOMAIN jobs : jobs'[j].last >= jobs[j].last
        /\ \A j \in DOMAIN web_jobs : web_jobs'[j].last >= web_jobs[j].last ]_vars

\* a file job that reported 10, then estimates, and failed
C6_Witness ==
    \E j \in FileJobs :
        Done(j) /\ jobs[j].result = "False" /\ jobs[j].last = Estimate(MaxLines)

\* a video and a page, both converted up to 100
C6_WitnessWeb ==
    /\ Len(web_jobs) = 2
    /\ \A j \in DOMAIN web_jobs : web_jobs[j].state = "done" /\ web_jobs[j].last = 100
    /\ IsYoutube(web_jobs[1].url) /\ ~IsYoutube(web_jobs[2].url)

\* C7: for a file job with a progress callback, 100 is reported exactly when
\* convert_file returns True, nothing is reported after it, and a job that
\* returns False has not reported 100.
C7_HundredIffSuccess ==
    \A j \in FileJobs :
        /\ ~jobs[j].after100
        /\ (jobs[j].last = 100) =>
               \/ Done(j) /\ jobs[j].result = "True"
               \/ j = cur /\ wpc = "notify" /\ result = "True"
        /\ (Done(j) /\ jobs[j].pcb) =>
               (jobs[j].result = "True" <=> jobs[j].last = 100)

\* one job done with success and 100, another done with failure after progress
C7_Witness ==
    \E j, k \in FileJobs :
        /\ Done(j) /\ jobs[j].result = "True" /\ jobs[j].last = 100
        /\ Done(k) /\ jobs[k].result = "False" /\ jobs[k].last \in 10..90

\* the inputs of the model that pass validation: existing, and the suffix
\* is .pdf in either case
Accepted(input) ==
    /\ input.exists
    /\ input.suffix \in { <<".", "p", "d", "f">>, <<".", "P", "D", "F">> }

\* C8: a missing input or an unsupported suffix ends in False with no Popen
\* call and no progress report; an existing input with a supported suffix,
\* whatever its case, reaches the Popen call.
C8_ValidationGatesSpawn ==
    \A j \in FileJobs :
        /\ ~Accepted(jobs[j].input) =>
              /\ ~jobs[j].popen /\ jobs[j].proc = 0 /\ jobs[j].last = -1
              /\ Done(j) => jobs[j].result = "False"
        /\ (Accepted(jobs[j].input) /\ (Done(j) \/ (j = cur /\ wpc = "notify")))
              => jobs[j].popen

\* an upper-case supported input that was spawned and an unsupported input
\* that was refused
C8_Witness ==
    \E a, b \in FileJobs :
        /\ jobs[a].input = File(TRUE, <<".", "P", "D", "F">>) /\ jobs[a].proc # 0
        /\ jobs[b].input = File(TRUE, <<".", "m", "d">>)
        /\ Done(b) /\ jobs[b].result = "False"

\* a missing input that was refused
C8_WitnessMissing ==
    \E b \in FileJobs :
        /\ jobs[b].input = File(FALSE, <<".", "p", "d", "f">>)
        /\ Done(b) /\ jobs[b].result = "False"

(* ==================== properties: directory conversion ================= *)
\* N: the direct files of the input directory
NumFiles == Len(dir)

\* K: those of them with a supported suffix, whatever its case
NumConvertible ==
    Cardinality({i \in DOMAIN dir :
                    dir[i].suffix \in { <<".", "P", "D", "F">>,
                                        <<".", "d", "o", "c", "x">> }})

\* the children the batch has fanned out
Children == {j \in DOMAIN jobs : jobs[j].ccb = "batch"}

\* nothing of the batch is left to run
BatchQuiescent == dpc = "returned" /\ queue = <<>> /\ wpc = "idle"

\* C1: for convert_directory called with a completion callback, the callback
\* is invoked at most once, with total_files = N, skipped = N-K and
\* converted + failed = K, and it has been invoked once when nothing of the
\* batch is left to run.
C1_CompletionOnceWithFinalTallies ==
    entry = "direct" =>
        /\ Len(completions) <= 1
        /\ \A i \in DOMAIN completions :
              /\ completions[i].total_files = NumFiles
              /\ completions[i].skipped = NumFiles - NumConvertible
              /\ completions[i].converted + completions[i].failed = NumConvertible
        /\ BatchQuiescent => Len(completions) = 1

\* two convertible files, one converted and one failed, callback invoked
C1_Witness ==
    /\ entry = "direct"
    /\ NumConvertible = 2
    /\ Len(completions) = 1
    /\ completions[1].converted = 1 /\ completions[1].failed = 1

\* C2 (as stated): for both entry points, when the caller's completion
\* callback is invoked every child has been submitted and has run its
\* callback, and converted and failed count the children by result.
C2_CompletionAfterAllChildren ==
    Len(completions) >= 1 =>
        /\ Cardinality(Children) = NumConvertible
        /\ \A j \in Children : Done(j) /\ jobs[j].notified = 1
        /\ \A i \in DOMAIN completions :
              /\ completions[i].converted =
                    Cardinality({j \in Children : jobs[j].result = "True"})
              /\ completions[i].failed =
                    Cardinality({j \in Children : jobs[j].result = "False"})

\* C9: convert_directory on a directory without convertible files has, when
\* it returns, invoked the completion callback once with total_files = N,
\* skipped = N and zeros elsewhere, and has submitted nothing.
C9_EmptyBatchCompletesSynchronously ==
    (entry = "direct" /\ NumConvertible = 0) =>
        /\ dpc = "returned"
        /\ completions = << [total_files |-> NumFiles, converted |-> 0,
                             failed |-> 0, skipped |-> NumFiles,
                             in_progress |-> 0] >>
        /\ jobs = <<>> /\ queue = <<>> /\ wpc = "idle"

\* a directory of two files, both skipped
C9_Witness ==
    /\ entry = "direct"
    /\ NumFiles = 2 /\ NumConvertible = 0
    /\ Len(completions) = 1 /\ completions[1].skipped = 2

\* C10 (as stated): in every state after the enumeration, fan-out included,
\* converted + failed + in_progress = total_files - skipped.
C10_BatchRunInvariant ==
    dpc \in {"read", "write", "returned"} =>
        stats.converted + stats.failed + stats.in_progress
            = stats.total_files - stats.skipped

\* the ways convert_file returns False
FailureKinds == {"missing", "unsupported", "spawn", "exit", "cancelled"}

\* C11: every file job submitted through convert_file_async gets its
\* completion callback exactly once, with a boolean result, whatever the way
\* convert_file failed: the callback never runs twice, a job that has ended has
\* been notified once with True or False, a notified job has ended with an
\* outcome, and once the worker is idle with an empty queue every submitted
\* job has ended (no failure stops the worker or a later job).
C11_ExactlyOneBooleanCallback ==
    /\ \A j \in FileJobs :
          /\ jobs[j].notified <= 1
          /\ Done(j) => /\ jobs[j].notified = 1
                        /\ jobs[j].result \in {"True", "False"}
                        /\ jobs[j].outcome \in FailureKinds \cup {"ok"}
                        /\ jobs[j].result = "False" <=>
                              jobs[j].outcome \in FailureKinds
          /\ jobs[j].notified = 1 => Done(j)
    /\ (wpc = "idle" /\ queue = <<>>) => \A j \in FileJobs : Done(j)

\* two jobs have failed in different ways, the first by an exception of
\* Popen, and both have been notified
C11_Witness ==
    /\ Len(jobs) = 2
    /\ Done(1) /\ jobs[1].outcome = "spawn" /\ jobs[1].notified = 1
    /\ Done(2) /\ jobs[2].outcome \in FailureKinds \ {"spawn"}
    /\ jobs[2].notified = 1

\* every failure kind ends in a notified job
C11_WitnessCancelled ==
    \E j \in FileJobs : Done(j) /\ jobs[j].outcome = "cancelled"
                        /\ jobs[j].notified = 1

\* what _convert_and_notify hands to completion_callback(result, output_path)
Delivered(j) == <<jobs[j].result, jobs[j].cb_out>>

\* C12: what the completion callback of a cancelled file job receives differs
\* from what the callback of a job that failed for another reason receives,
\* for two jobs submitted with the same output path.
C12_CancellationDistinguishable ==
    \A j, k \in FileJobs :
        ( /\ Done(j) /\ jobs[j].outcome = "cancelled"
          /\ Done(k) /\ jobs[k].outcome \in FailureKinds \ {"cancelled"}
          /\ jobs[j].output_path = jobs[k].output_path )
        => Delivered(j) # Delivered(k)

\* C13: when convert_file returns because it observed the cancellation, the
\* process of the job has been asked to terminate and is no longer alive.
C13_CancelledProcessNotAlive ==
    (wpc = "notify" /\ jobs[cur].outcome = "cancelled")
        => ~ProcAlive(jobs[cur].proc)

\* C14: the output path handed to the completion callback of a file job is
\* the resolved path that was given to the external tool.
C14_CallbackGetsResolvedPath ==
    \A j \in FileJobs :
        (Done(j) /\ jobs[j].notified = 1 /\ jobs[j].tool_out # None)
            => jobs[j].cb_out = jobs[j].tool_out

\* C15: a URL or YouTube job that is running when
\* WebToMarkdownConverter.cancel_conversion is called does not end with a
\* success result.
C15_WebCancelStopsRunningJob ==
    \A j \in DOMAIN web_jobs :
        (web_jobs[j].state = "done" /\ web_jobs[j].cancelRunning)
            => web_jobs[j].result # "True"

\* the worker is in the monitoring loop of convert_file
Monitoring == wpc \in {"poll", "check", "drain"}

\* C16: a cancellation requested while the external process is alive and
\* monitored is eventually observed: the worker leaves the monitoring loop,
\* even if the process prints nothing more and never exits on its own.
C16_CancellationEventuallyObserved ==
    (Monitoring /\ cancel_requested /\ ProcAlive(process)) ~> ~Monitoring

\* C17: cancel_conversion cancels at most the job that is running: a job is
\* cancelled only if a cancel was requested while it was running past its
\* reset of the flag, and a job that was only queued when the cancels were
\* requested still starts its external process when its input is accepted.
C17_CancelOnlyRunningJob ==
    \A j \in FileJobs :
        /\ jobs[j].outcome = "cancelled" => jobs[j].cancelRunning
        /\ (Done(j) /\ ~jobs[j].cancelRunning /\ Accepted(jobs[j].input))
              => jobs[j].popen /\ jobs[j].outcome \in {"spawn", "exit", "ok"}

\* in a batch of two files a cancel was requested while the first was running
\* and the second was queued: the first is cancelled, the second converts
C17_Witness ==
    /\ dir # <<>> /\ Cardinality(Children) = 2
    /\ \E j, k \in Children :
          /\ j < k
          /\ Done(j) /\ jobs[j].outcome = "cancelled"
          /\ Done(k) /\ jobs[k].cancelInFlight /\ ~jobs[k].cancelRunning
          /\ jobs[k].popen /\ jobs[k].outcome = "ok"

\* the processes spawned by the converter that are alive
AliveProcesses == {p \in DOMAIN procs : ProcAlive(p)}

\* C18: at most one external process spawned by the converter is alive at
\* any time.
C18_AtMostOneLiveProcess == Cardinality(AliveProcesses) <= 1

\* C19: the counters are written by the worker's callbacks only, so no update
\* is lost: when convert_directory's completion callback fires, the statistics
\* it receives have in_progress = 0.
C19_NoLostCounterUpdate ==
    entry = "direct" =>
        \A i \in DOMAIN completions : completions[i].in_progress = 0

\* the batch has enumerated its files
Enumerated == dpc \in {"read", "write", "returned"}

\* C20: once in_progress = 0 after the enumeration of a batch with a
\* convertible file, no counter of the batch changes any more.
C20_FinalOnceInProgressZero ==
    [][ (Enumerated /\ NumConvertible > 0 /\ stats.in_progress = 0)
            => /\ stats'.converted = stats.converted
               /\ stats'.failed = stats.failed
               /\ stats'.in_progress = stats.in_progress ]_vars

\* the children whose file_converted has tallied them
Counted == {j \in Children : Done(j) \/ (j = cur /\ wpc = "cb_write")}

\* the result convert_file returned for a tallied child
ChildResult(j) == IF Done(j) THEN jobs[j].result ELSE result

\* C21: a failed child adds exactly one to failed and does not abort the
\* batch: failed and converted count the tallied children by result, the
\* fan-out submits every convertible file, and when nothing of the batch is
\* left to run every convertible file has run as a job and the completion
\* callback has been invoked.
C21_FailureDoesNotAbortBatch ==
    /\ stats.failed = Cardinality({j \in Counted : ChildResult(j) = "False"})
    /\ stats.converted = Cardinality({j \in Counted : ChildResult(j) = "True"})
    /\ dpc = "returned" => Cardinality(Children) = NumConvertible
    /\ (BatchQuiescent /\ entry # "none") =>
          /\ \A j \in Children : Done(j) /\ jobs[j].popen
          /\ Len(completions) = 1

\* the first of two children failed, the second converted afterwards, and
\* the batch completed
C21_Witness ==
    /\ BatchQuiescent /\ entry = "direct" /\ NumConvertible = 2
    /\ \E j, k \in Children :
          j < k /\ jobs[j].result = "False" /\ jobs[k].result = "True"
    /\ stats.failed = 1 /\ stats.converted = 1
    /\ Len(completions) = 1

\* update_progress: (converted + failed) / len(files_to_convert) * 100, kept
\* as the pair <<converted + failed, len(files_to_convert)>>; the comparisons
\* of two such values with the same denominator and with 0 and 100
Percent100(v) == v[1] = v[2]
PercentInRange(v) == 0 < v[1] /\ v[1] <= v[2]
PercentLeq(v, w) == v[1] * w[2] <= w[1] * v[2]

\* C22: in a batch with K > 0 convertible files the batch progress callback
\* is invoked once per resolved child, with (converted + failed) / K * 100
\* taken after that child was tallied; the values never decrease and lie in
\* (0, 100], and the last one is 100 and is reported before the completion
\* callback.
C22_BatchProgressPerChild ==
    /\ Len(batch_progress) = Cardinality({j \in Children : Done(j)})
    /\ \A i \in DOMAIN batch_progress :
          /\ batch_progress[i] = <<i, NumConvertible>>
          /\ PercentInRange(batch_progress[i])
          /\ i > 1 => PercentLeq(batch_progress[i - 1], batch_progress[i])
    /\ (NumConvertible > 0 /\ Len(completions) >= 1) =>
          /\ batch_progress # <<>>
          /\ Percent100(batch_progress[Len(batch_progress)])

\* C23: the step of convert_file that observes the cancel flag sends the
\* process a termination request (a live process becomes terminating, it is
\* not killed), leaves the monitoring loop with the result False, and a job
\* that was cancelled stays cancelled and reports no more progress.
C23_CancelTerminatesAndStopsReporting ==
    [][ /\ (wpc = "check" /\ wpc' # "check" /\ cancel_requested) =>
              /\ wpc' = "notify" /\ result' = "False"
              /\ jobs'[cur].outcome = "cancelled"
              /\ jobs'[cur].last = jobs[cur].last
              /\ procs[process] = "alive" => procs'[process] = "terminating"
              /\ procs[process] # "alive" => procs'[process] = procs[process]
        /\ \A j \in FileJobs :
              jobs[j].outcome = "cancelled" =>
                  /\ jobs'[j].outcome = "cancelled"
                  /\ jobs'[j].last = jobs[j].last
                  /\ jobs'[j].result # "True" ]_vars

\* a job that had read a line was cancelled and has ended, its last progress
\* value is the loop's estimate and its process is still terminating
C23_Witness ==
    \E j \in FileJobs :
        /\ Done(j) /\ jobs[j].outcome = "cancelled"
        /\ jobs[j].last = Estimate(1)
        /\ procs[jobs[j].proc] = "terminating"

\* C24: while convert_file monitors its process, the last progress value it
\* reported is min(90, 10 + 2 * lines read) and lies in [10, 90], and so
\* does the estimate for every larger number of lines up to MaxCount; a
\* value above 90 has been reported only for a job whose process has exited.
C24_EstimateWhileAlive ==
    /\ (Monitoring /\ jobs[cur].pcb) =>
          /\ jobs[cur].last = Estimate(stdout_lines)
          /\ \A n \in stdout_lines..MaxCount :
                LET e == Estimate(n) IN
                  /\ e = IF 10 + 2 * n <= 90 THEN 10 + 2 * n ELSE 90
                  /\ e >= 10 /\ e <= 90
    /\ \A j \in FileJobs :
          jobs[j].last > 90 =>
              /\ jobs[j].last = 100
              /\ jobs[j].proc # 0 /\ procs[jobs[j].proc] = "exit0"

\* the worker is monitoring a live process after reading a line, and the
\* last value reported is the estimate for one line
C24_Witness ==
    /\ Monitoring /\ ProcAlive(process) /\ jobs[cur].pcb
    /\ stdout_lines = 1 /\ jobs[cur].last = 12

\* a job is executing on the converter's worker
FileExecuting == wpc # "idle"
WebExecuting == web_pc # "idle"

\* C25: the two converters have independent lanes: on each converter at most
\* one job is executing at any time, a cancel_conversion of the docling
\* converter leaves the web converter's flag, queue and running job as they
\* are, and a cancel_conversion of the web converter leaves the docling
\* converter's flag, process and running job as they are.
C25_IndependentLanes ==
    /\ [](/\ Cardinality({j \in DOMAIN jobs : jobs[j].state = "running"}) <= 1
          /\ Cardinality({j \in DOMAIN web_jobs :
                             web_jobs[j].state = "running"}) <= 1)
    /\ [][ /\ (cancels' # cancels \/ cancel_requested' # cancel_requested
                  \/ wpc' # wpc \/ jobs' # jobs)
              => UNCHANGED webVars
           /\ (web_cancel_requested' # web_cancel_requested
                  \/ web_pc' # web_pc \/ web_jobs' # web_jobs)
              => UNCHANGED fileVars ]_vars

\* a docling job and a web job are executing at the same time, the docling
\* converter has been asked to cancel and the web converter has not
C25_Witness ==
    /\ FileExecuting /\ Monitoring /\ ProcAlive(process)
    /\ WebExecuting /\ web_jobs[web_cur].last = 50
    /\ cancel_requested /\ ~web_cancel_requested

\* two jobs were submitted to the docling converter while the web converter
\* is not used: the second waits in the queue while the first is executing
C25_WitnessSerialized ==
    /\ lane = "both" /\ FileExecuting /\ Len(queue) = 1 /\ web_jobs = <<>>

\* C26: once main has cleaned up after the window closed, temp_output is
\* removed and stays removed: no job left on a lane creates it again to write
\* its output there.
C26_TempDirStaysRemoved == app = "exited" => ~temp_dir_exists

\* the jobs submitted by start_conversion that are still queued or running
AppFileJobsInFlight == {j \in DOMAIN jobs : jobs[j].ccb = "gui" /\ ~Done(j)}
AppWebJobsInFlight ==
    {j \in DOMAIN web_jobs : web_jobs[j].gui /\ web_jobs[j].state # "done"}

\* C29: conversion_in_progress is true whenever a job submitted by
\* start_conversion is still queued or running on either converter, so at
\* most one such job is in flight at any time.
C29_InProgressCoversJobsInFlight ==
    /\ (AppFileJobsInFlight # {} \/ AppWebJobsInFlight # {})
          => conversion_in_progress
    /\ Cardinality(AppFileJobsInFlight) + Cardinality(AppWebJobsInFlight) <= 1

\* every convertible file of the batch has run as a child job to its end
AllChildrenResolved ==
    /\ dpc = "returned"
    /\ Cardinality(Children) = NumConvertible
    /\ \A j \in Children : Done(j)

\* C27: convert_directory_async does not deadlock its lane: once it was
\* called, the batch thunk ends and every child job starts and resolves,
\* provided the worker keeps running and every external process ends.
C27_AsyncBatchResolves ==
    (entry = "async") ~> (AllChildrenResolved /\ BatchQuiescent)

\* a batch of two convertible files entered through convert_directory_async
\* has resolved both children after the thunk had ended
C27_Witness ==
    /\ entry = "async" /\ NumConvertible = 2
    /\ AllChildrenResolved /\ BatchQuiescent
    /\ Len(completions) = 1

\* C28: every child of a batch is given the output path output_dir/<stem>.md
\* of its file, and no two children of the batch are given the same output
\* path.
C28_DistinctOutputPaths ==
    /\ \A j \in Children :
          jobs[j].output_path = <<"output_dir", jobs[j].input.stem, ".md">>
    /\ \A j, k \in Children :
          j # k => jobs[j].output_path # jobs[k].output_path

====
